---- MODULE Spec2Model ----
(***************************************************************************)
(* Model of the implicit linear-update subsystem of aither                 *)
(* (src/src/linearSolver.cpp): InitializeMatrixUpdate, InvertDiagonal,     *)
(* the lusgs constructor, LUSGS_Forward, LUSGS_Backward, lusgs::Relax,     *)
(* DPLUR and dplur::Relax.                                                 *)
(*                                                                         *)
(* Values.  One equation per cell (NumEquations + NumSpecies = 1), so a    *)
(* varArray is one number, varArray::Sum is the number itself and a block  *)
(* of the main diagonal is a 1x1 matrix.  The relaxation part works on     *)
(* integers (every value of the runs below is an integer a double holds    *)
(* exactly); InvertDiagonal works on exact fractions <<num, den>>.         *)
(*                                                                         *)
(* Collaborators whose code is not in linearSolver.cpp (procBlock's        *)
(* ImplicitLower / ImplicitUpper, SwapImplicitUpdate, HyperplaneReorder,   *)
(* the matMultiArray3d operations) are modelled from the specification.    *)
(***************************************************************************)
EXTENDS Integers, Sequences, FiniteSets, TLC

VARIABLES
  level,         \* gridLevel: block extents, connection table, ghost layers
  blk,           \* procBlock data: residual, solution deltas, off-diagonal data
  aInv,          \* level.Diagonal(bb): the (inverted) main diagonal used by Relax
  inp,           \* input: Theta, MatrixRequiresInitialization, DualTimeCFL, ...
  solver,        \* "lusgs" | "dplur" | "none"
  sweeps,        \* Relax's argument sweeps
  reorder_,      \* lusgs::reorder_, one table per block
  du,            \* the update, du[bb] indexed over the block with its ghosts
  pc,            \* position in Relax / InvertDiagonal
  ii,            \* Relax's sweep counter
  st,            \* per block: "idle" | "run" | "fin" within the current phase
  nn,            \* per block: the cell loop's position
  l2Error,       \* per block: the running call's l2Error
  xold,          \* per block: DPLUR's frozen copy of x
  matrixError,   \* Relax's matrixError
  ret,           \* Relax's return value
  mainDiagonal,  \* InvertDiagonal's matMultiArray3d (exact fractions)
  diagIn,        \* observer: the main diagonal handed to InvertDiagonal
  trace,         \* observer: the calls Relax issued, in order
  finished,      \* observer: the block sweeps that have returned
  visits,        \* observer: per block, the cells written by the running sweep, in order
  duSwap,        \* observer: du as left by the last ghost exchange
  errSwap,       \* observer: matrixError at the last ghost exchange
  obsErr         \* observer: sum of (du after - du before)^2 over sweep writes

vars == <<level, blk, aInv, inp, solver, sweeps, reorder_, du, pc, ii, st, nn,
          l2Error, xold, matrixError, ret, mainDiagonal, diagIn, trace,
          finished, visits, duSwap, errSwap, obsErr>>

\* ------------------------------------------------------------------ bounds

\* Relax is called with sweeps in -1 .. MaxSweeps.
MaxSweeps == 2
\* Residuals are drawn from 0 .. MaxResid.
MaxResid == 1
\* Block extents of the hyperplane-ordering runs are drawn from 1 .. MaxN.
MaxN == 3

\* ---------------------------------------------------------------- geometry

Ext(ni, nj, nk) == [ni |-> ni, nj |-> nj, nk |-> nk]

\* A connection: block lo's upper face in direction dir (1 = i, 2 = j, 3 = k)
\* abuts block up's lower face in the same direction.
Conn(lo, up, dir) == [lo |-> lo, up |-> up, dir |-> dir]

MkLevel(blocks, conns) == [blocks |-> blocks, conns |-> conns, numGhosts |-> 1]

NumBlocks == Len(level.blocks)
Blocks == 0 .. NumBlocks - 1
Block(b) == level.blocks[b + 1]
NumI(b) == Block(b).ni
NumJ(b) == Block(b).nj
NumK(b) == Block(b).nk
NumCells(b) == NumI(b) * NumJ(b) * NumK(b)
NumGhosts(b) == level.numGhosts
NumDir(b, d) == IF d = 1 THEN NumI(b) ELSE IF d = 2 THEN NumJ(b) ELSE NumK(b)

\* Physical cells are indexed from 0 (StartI = 0, EndI = NumI); ghost cells
\* have indices below 0 or at and above the extent.
Interior(b) == (0 .. NumI(b) - 1) \X (0 .. NumJ(b) - 1) \X (0 .. NumK(b) - 1)
Padded(b) ==
  LET g == NumGhosts(b) IN
  (-g .. NumI(b) - 1 + g) \X (-g .. NumJ(b) - 1 + g) \X (-g .. NumK(b) - 1 + g)
IsPhysical(b, c) == c \in Interior(b)
Ghosts(b) == Padded(b) \ Interior(b)

Shift(c, d, by) == [c EXCEPT ![d] = c[d] + by]
Lower(c, d) == Shift(c, d, -1)
Upper(c, d) == Shift(c, d, 1)
Dirs == {1, 2, 3}

\* c is on the ghost side of block b's face in direction d only: its other
\* two indices are those of physical cells.
InFaceRange(b, c, d) ==
  \A e \in Dirs \ {d} : c[e] >= 0 /\ c[e] < NumDir(b, e)

\* The boundary of block b below (above) its cells in direction d is an
\* interblock boundary.
InterblockLower(b, d) == \E cn \in level.conns : cn.up = b /\ cn.dir = d
InterblockUpper(b, d) == \E cn \in level.conns : cn.lo = b /\ cn.dir = d

\* ------------------------------------------------------- block interface

Residual(b, c) == blk.residual[<<b, c>>]
SolDeltaNm1(b, c) == blk.solDeltaNm1
SolDeltaMmN(b, c) == blk.solDeltaMmN
SolDeltaNCoeff(b, c) == blk.solDeltaNCoeff[<<b, c>>]
SpectralRadius(b, c) == blk.specRad[<<b, c>>]

\* uncoupledScalar::Max of the (flow, turbulence) spectral radii.
MaxComponent(sr) == IF sr[1] >= sr[2] THEN sr[1] ELSE sr[2]

\* Matrix-free action of the lower (upper) triangular part at cell c on x:
\* a lower (upper) neighbour contributes when it is a physical cell or a ghost
\* cell across an interblock boundary.
ImplicitLower(b, c, x) ==
  LET term(d) ==
        IF IsPhysical(b, Lower(c, d)) \/ InterblockLower(b, d)
          THEN blk.jacLower * x[Lower(c, d)] ELSE 0
  IN term(1) + term(2) + term(3)

ImplicitUpper(b, c, x) ==
  LET term(d) ==
        IF IsPhysical(b, Upper(c, d)) \/ InterblockUpper(b, d)
          THEN blk.jacUpper * x[Upper(c, d)] ELSE 0
  IN term(1) + term(2) + term(3)

\* aInv.ArrayMult(ii, jj, kk, v)
ArrayMult(b, c, v) == aInv[<<b, c>>] * v

\* 1.0 / inp.Theta(), Theta being 1 or 1/2
ThetaInv == inp.theta.den \div inp.theta.num

\* b = -thetaInv * Residual + solDeltaNm1 - solDeltaMmN
BTerm(b, c) ==
  (-ThetaInv) * Residual(b, c) + SolDeltaNm1(b, c) - SolDeltaMmN(b, c)

\* ------------------------------------------------------- ghost exchange

\* SwapImplicitUpdate: every ghost cell across an interblock boundary takes
\* the value of the neighbour block's physical cell it overlays; nothing
\* else changes.
SwapImplicitUpdate(x) ==
  [b \in DOMAIN x |->
    [c \in DOMAIN x[b] |->
      IF \E cn \in level.conns :
           cn.lo = b /\ c[cn.dir] >= NumDir(b, cn.dir) /\ InFaceRange(b, c, cn.dir)
      THEN LET cn == CHOOSE q \in level.conns :
                       q.lo = b /\ c[q.dir] >= NumDir(b, q.dir)
                       /\ InFaceRange(b, c, q.dir)
           IN x[cn.up][[c EXCEPT ![cn.dir] = c[cn.dir] - NumDir(b, cn.dir)]]
      ELSE IF \E cn \in level.conns :
           cn.up = b /\ c[cn.dir] < 0 /\ InFaceRange(b, c, cn.dir)
      THEN LET cn == CHOOSE q \in level.conns :
                       q.up = b /\ c[q.dir] < 0 /\ InFaceRange(b, c, q.dir)
           IN x[cn.lo][[c EXCEPT ![cn.dir] = NumDir(cn.lo, cn.dir) + c[cn.dir]]]
      ELSE x[b][c]]]

\* ----------------------------------------------------- traversal orders

\* HyperplaneReorder(imax, jmax, kmax): plane by plane (pp = i + j + k), and
\* within a plane k outermost, then j, then i.
RECURSIVE PlaneCells(_, _, _, _, _)
PlaneCells(imax, jmax, kmax, pp, m) ==
  IF m >= imax * jmax * kmax THEN <<>>
  ELSE LET i == m % imax
           j == (m \div imax) % jmax
           k == m \div (imax * jmax)
       IN (IF i + j + k = pp THEN <<(<<i, j, k>>)>> ELSE <<>>)
          \o PlaneCells(imax, jmax, kmax, pp, m + 1)

RECURSIVE PlanesFrom(_, _, _, _)
PlanesFrom(imax, jmax, kmax, pp) ==
  IF pp >= imax + jmax + kmax - 2 THEN <<>>
  ELSE PlaneCells(imax, jmax, kmax, pp, 0) \o PlanesFrom(imax, jmax, kmax, pp + 1)

HyperplaneReorder(imax, jmax, kmax) == PlanesFrom(imax, jmax, kmax, 0)

\* LusgsReorder with the i and j extents passed in each other's place.
LusgsReorderSwapped ==
  [b \in Blocks |-> HyperplaneReorder(NumJ(b), NumI(b), NumK(b))]

\* lusgs::lusgs: one table per block, from the block's extents.
LusgsReorder ==
  [b \in Blocks |-> HyperplaneReorder(NumI(b), NumJ(b), NumK(b))]

\* The order of the loops kk { jj { ii } } over StartK..EndK etc.
NaturalOrder(b) ==
  [m \in 1 .. NumCells(b) |->
    <<(m - 1) % NumI(b), ((m - 1) \div NumI(b)) % NumJ(b),
      (m - 1) \div (NumI(b) * NumJ(b))>>]

\* ------------------------------------------------------------ cell updates

Zero(b) == [c \in Padded(b) |-> 0]

\* linearSolver::InitializeMatrixUpdate: zero everywhere, and on the physical
\* cells aInv * b when the solver asks for an initialized update.
InitializeMatrixUpdate(b) ==
  [c \in Padded(b) |->
    IF inp.matrixRequiresInitialization /\ IsPhysical(b, c)
      THEN ArrayMult(b, c, BTerm(b, c)) ELSE 0]

\* One pass of LUSGS_Forward's loop body, at cell c.
LUSGS_ForwardCell(b, sweep, c, x) ==
  LET lower == ImplicitLower(b, c, x)
      offDiagonal ==
        IF sweep > 0 \/ inp.matrixRequiresInitialization
          THEN lower - ImplicitUpper(b, c, x) ELSE lower
  IN [x EXCEPT ![c] = ArrayMult(b, c, BTerm(b, c) + offDiagonal)]

\* LUSGS_BackwardCell adding the upper term on the first, uninitialized sweep.
LUSGS_BackwardCellPlus(b, sweep, c, x) ==
  LET U == ImplicitUpper(b, c, x)
      old == x[c]
      new == IF sweep > 0 \/ inp.matrixRequiresInitialization
               THEN ArrayMult(b, c, BTerm(b, c) + ImplicitLower(b, c, x) - U)
               ELSE old + ArrayMult(b, c, U)
  IN [x |-> [x EXCEPT ![c] = new], err |-> (new - old) * (new - old)]

\* LUSGS_BackwardCell storing its result one cell further along i.
LUSGS_BackwardCellShifted(b, sweep, c, x) ==
  LET U == ImplicitUpper(b, c, x)
      old == x[c]
      new == IF sweep > 0 \/ inp.matrixRequiresInitialization
               THEN ArrayMult(b, c, BTerm(b, c) + ImplicitLower(b, c, x) - U)
               ELSE old - ArrayMult(b, c, U)
  IN [x |-> [x EXCEPT ![Upper(c, 1)] = new], err |-> (new - old) * (new - old)]

\* One pass of LUSGS_Backward's loop body, at cell c: the new x and the
\* cell's contribution error * error to l2Error.
LUSGS_BackwardCell(b, sweep, c, x) ==
  LET U == ImplicitUpper(b, c, x)
      old == x[c]
      new == IF sweep > 0 \/ inp.matrixRequiresInitialization
               THEN ArrayMult(b, c, BTerm(b, c) + ImplicitLower(b, c, x) - U)
               ELSE old - ArrayMult(b, c, U)
  IN [x |-> [x EXCEPT ![c] = new], err |-> (new - old) * (new - old)]

\* DPLURCell evaluating the off-diagonal terms on x, not on the copy.
DPLURCellInPlace(b, c, x, xo) ==
  LET offDiagonal == ImplicitLower(b, c, x) - ImplicitUpper(b, c, x)
      new == ArrayMult(b, c, BTerm(b, c) + offDiagonal)
  IN [x |-> [x EXCEPT ![c] = new], err |-> (new - xo[c]) * (new - xo[c])]

\* One pass of DPLUR's loop body, at cell c; xo is the copy taken at entry.
DPLURCell(b, c, x, xo) ==
  LET offDiagonal == ImplicitLower(b, c, xo) - ImplicitUpper(b, c, xo)
      new == ArrayMult(b, c, BTerm(b, c) + offDiagonal)
  IN [x |-> [x EXCEPT ![c] = new], err |-> (new - xo[c]) * (new - xo[c])]

\* --------------------------------------------- whole sweeps, as functions

\* (In the recursions below an intermediate value is bound through a
\* one-element set, so that it is evaluated once and not at every use.)
RECURSIVE ForwardFrom(_, _, _, _)
ForwardFrom(b, sweep, x, n) ==
  IF n >= NumCells(b) THEN x
  ELSE CHOOSE out \in
         {ForwardFrom(b, sweep, y, n + 1) :
            y \in {LUSGS_ForwardCell(b, sweep, reorder_[b][n + 1], x)}} : TRUE

LUSGS_Forward(b, sweep, x) == ForwardFrom(b, sweep, x, 0)

RECURSIVE BackwardFrom(_, _, _, _)
BackwardFrom(b, sweep, r, n) ==
  IF n < 0 THEN r
  ELSE CHOOSE out \in
         {BackwardFrom(b, sweep, [x |-> s.x, err |-> r.err + s.err], n - 1) :
            s \in {LUSGS_BackwardCell(b, sweep, reorder_[b][n + 1], r.x)}} : TRUE

LUSGS_Backward(b, sweep, x) ==
  BackwardFrom(b, sweep, [x |-> x, err |-> 0], NumCells(b) - 1)

\* DPLUR visiting the interior cells in the order given by the sequence order.
RECURSIVE DPLURFrom(_, _, _, _, _)
DPLURFrom(b, order, r, xo, n) ==
  IF n > Len(order) THEN r
  ELSE CHOOSE out \in
         {DPLURFrom(b, order, [x |-> s.x, err |-> r.err + s.err], xo, n + 1) :
            s \in {DPLURCell(b, order[n], r.x, xo)}} : TRUE

DPLURInOrder(b, order, x) == DPLURFrom(b, order, [x |-> x, err |-> 0], x, 1)

DPLUR(b, x) == DPLURInOrder(b, NaturalOrder(b), x)

RECURSIVE SumErr(_, _)
SumErr(r, n) == IF n = 0 THEN 0 ELSE SumErr(r, n - 1) + r[n - 1].err

\* One LU-SGS sweep of Relax's loop: exchange, forward on every block,
\* exchange, backward on every block, matrixError accumulated in block order.
ForwardHalf(sweep, x) ==
  CHOOSE out \in
    {[b \in Blocks |-> LUSGS_Forward(b, sweep, x1[b])] :
       x1 \in {SwapImplicitUpdate(x)}} : TRUE

BackwardHalf(sweep, x) ==
  CHOOSE out \in
    {[b \in Blocks |-> LUSGS_Backward(b, sweep, x3[b])] :
       x3 \in {SwapImplicitUpdate(x)}} : TRUE

LusgsSweep(sweep, r) ==
  CHOOSE out \in
    {[x |-> [b \in Blocks |-> bw[b].x], err |-> r.err + SumErr(bw, NumBlocks)] :
       bw \in {BackwardHalf(sweep, ForwardHalf(sweep, r.x))}} : TRUE

\* One DP-LUR sweep of Relax's loop: the per-block error is not added.
DplurSweep(sweep, r) ==
  CHOOSE out \in
    {[x |-> [b \in Blocks |-> DPLUR(b, x1[b]).x], err |-> r.err] :
       x1 \in {SwapImplicitUpdate(r.x)}} : TRUE

RECURSIVE RelaxFrom(_, _)
RelaxFrom(r, sweep) ==
  IF ~(sweep < sweeps) THEN r
  ELSE CHOOSE out \in
         {RelaxFrom(q, sweep + 1) :
            q \in {IF solver = "lusgs" THEN LusgsSweep(sweep, r)
                                      ELSE DplurSweep(sweep, r)}} : TRUE

\* Relax as a function of the update handed to it.
Relax(x) ==
  CHOOSE out \in {RelaxFrom(r, 0) : r \in {[x |-> x, err |-> 0]}} : TRUE

\* ------------------------------------------------------- exact fractions

RECURSIVE GCD(_, _)
GCD(a, b) == IF b = 0 THEN a ELSE GCD(b, a % b)

Abs(a) == IF a < 0 THEN -a ELSE a

\* The fraction n / d (d # 0) in lowest terms with a positive denominator.
Frac(n, d) ==
  LET g == GCD(Abs(n), Abs(d))
      s == IF d < 0 THEN -1 ELSE 1
  IN [num |-> s * (n \div g), den |-> s * (d \div g)]

FracAdd(p, q) == Frac(p.num * q.den + q.num * p.den, p.den * q.den)
FracScale(p, k) == Frac(p.num * k, p.den)

\* matMultiArray3d::MultiplyOnDiagonal, AddOnDiagonal and Inverse on a 1x1 block
MultiplyOnDiagonal(m, factor) == FracScale(m, factor)
AddOnDiagonal(m, v) == FracAdd(m, v)
Inverse(m) == Frac(m.den, m.num)

\* InvertDiagonalCell adding the volume and time term before the scaling.
InvertDiagonalCellAddFirst(b, c, m) ==
  LET coeff == Frac(SolDeltaNCoeff(b, c), 1)
      diagVolTime ==
        IF inp.dualTimeCFL > 0
          THEN FracAdd(coeff, Frac(MaxComponent(SpectralRadius(b, c)), inp.dualTimeCFL))
          ELSE coeff
  IN Inverse(MultiplyOnDiagonal(AddOnDiagonal(m, diagVolTime), inp.matrixRelaxation))

\* The body of InvertDiagonal's loop at cell c, m being the cell's block.
InvertDiagonalCell(b, c, m) ==
  LET coeff == Frac(SolDeltaNCoeff(b, c), 1)
      diagVolTime ==
        IF inp.dualTimeCFL > 0
          THEN FracAdd(coeff, Frac(MaxComponent(SpectralRadius(b, c)), inp.dualTimeCFL))
          ELSE coeff
  IN Inverse(AddOnDiagonal(MultiplyOnDiagonal(m, inp.matrixRelaxation), diagVolTime))

\* ------------------------------------------------------------ initial states

BlockCells == UNION {{<<b, c>> : c \in Interior(b)} : b \in Blocks}

\* Grid levels of the relaxation runs: one 2x2x1 block; two 2x1x1 blocks
\* sharing an i-face; two one-cell blocks joined in a ring along i.
RelaxLevels ==
  { MkLevel(<<Ext(2, 2, 1)>>, {}),
    MkLevel(<<Ext(2, 1, 1), Ext(2, 1, 1)>>, {Conn(0, 1, 1)}),
    MkLevel(<<Ext(1, 1, 1), Ext(1, 1, 1)>>, {Conn(0, 1, 1), Conn(1, 0, 1)}) }

\* Single blocks of every extent up to MaxN.
OrderLevels ==
  { MkLevel(<<Ext(ni, nj, nk)>>, {}) : ni \in 1 .. MaxN, nj \in 1 .. MaxN, nk \in 1 .. MaxN }

InvertLevels == { MkLevel(<<Ext(2, 1, 1)>>, {}), MkLevel(<<Ext(1, 2, 1)>>, {}),
                  MkLevel(<<Ext(1, 1, 2)>>, {}) }

Thetas == { [num |-> 1, den |-> 1], [num |-> 1, den |-> 2] }

\* The state Relax starts in: the solver constructed, du as returned by
\* InitializeMatrixUpdate for every block.
RelaxStart ==
  /\ reorder_ = IF solver = "lusgs" THEN LusgsReorder ELSE <<>>
  /\ du = [b \in Blocks |-> InitializeMatrixUpdate(b)]
  /\ pc = "loop"
  /\ ii = 0
  /\ st = [b \in Blocks |-> "idle"]
  /\ nn = [b \in Blocks |-> 0]
  /\ l2Error = [b \in Blocks |-> 0]
  /\ xold = [b \in Blocks |-> <<>>]
  /\ matrixError = 0
  /\ ret = -1
  /\ mainDiagonal = <<>>
  /\ diagIn = <<>>
  /\ trace = <<>>
  /\ finished = {}
  /\ visits = [b \in Blocks |-> <<>>]
  /\ duSwap = du
  /\ errSwap = 0
  /\ obsErr = 0

\* Block data: a residual per cell; the two solution deltas and the two
\* off-diagonal coefficients are the same in every cell.
Deltas == { <<0, 0>>, <<2, 1>> }
Jacobians == { <<1, 1>>, <<1, -1>> }

BlockData(residuals, deltas, jacobians, coeffs, radii) ==
  { [residual |-> r, solDeltaNm1 |-> d[1], solDeltaMmN |-> d[2],
     jacLower |-> j[1], jacUpper |-> j[2], solDeltaNCoeff |-> k, specRad |-> s] :
    r \in residuals, d \in deltas, j \in jacobians, k \in coeffs, s \in radii }

Uniform(v) == [bc \in BlockCells |-> v]

Inputs(thetas, inits, cfls, relaxations) ==
  [theta : thetas, matrixRequiresInitialization : inits,
   dualTimeCFL : cfls, matrixRelaxation : relaxations]

Init ==
  /\ level \in RelaxLevels
  /\ blk \in BlockData([BlockCells -> 0 .. MaxResid], Deltas, Jacobians,
                       {Uniform(0)}, {Uniform(<<0, 0>>)})
  /\ aInv \in {Uniform(1), Uniform(-1)}
  /\ inp \in Inputs(Thetas, BOOLEAN, {0}, {1})
  /\ solver \in {"lusgs", "dplur"}
  /\ sweeps \in -1 .. MaxSweeps
  /\ RelaxStart

\* Relax on a single block of any extent up to MaxN.
InitOrder ==
  /\ level \in OrderLevels
  /\ blk \in BlockData({Uniform(1)}, {<<0, 0>>}, {<<1, 0>>},
                       {Uniform(0)}, {Uniform(<<0, 0>>)})
  /\ aInv = Uniform(1)
  /\ inp \in Inputs({[num |-> 1, den |-> 1]}, BOOLEAN, {0}, {1})
  /\ solver \in {"lusgs", "dplur"}
  /\ sweeps = 1
  /\ RelaxStart

\* Relax on the levels of more than one block.
InitPar ==
  /\ level \in {lv \in RelaxLevels : Len(lv.blocks) > 1}
  /\ blk \in BlockData([BlockCells -> 0 .. MaxResid], {<<2, 1>>}, Jacobians,
                       {Uniform(0)}, {Uniform(<<0, 0>>)})
  /\ aInv \in {Uniform(1), Uniform(-1)}
  /\ inp \in Inputs({[num |-> 1, den |-> 2]}, BOOLEAN, {0}, {1})
  /\ solver \in {"lusgs", "dplur"}
  /\ sweeps \in 1 .. MaxSweeps
  /\ RelaxStart

\* InvertDiagonal about to run on a block's main diagonal.
InitInvert ==
  /\ level \in InvertLevels
  /\ blk \in BlockData({Uniform(0)}, {<<0, 0>>}, {<<1, 1>>},
                       [BlockCells -> {0, 1}],
                       [BlockCells -> {<<0, 0>>, <<1, 2>>, <<3, 1>>}])
  /\ aInv = <<>>
  /\ inp \in Inputs({[num |-> 1, den |-> 1]}, {FALSE}, {-1, 0, 1, 2}, {1, 2})
  /\ solver = "none"
  /\ sweeps = 0
  /\ reorder_ = <<>>
  /\ du = <<>>
  /\ pc = "invert"
  /\ ii = 0
  /\ st = [b \in Blocks |-> "run"]
  /\ nn = [b \in Blocks |-> 0]
  /\ l2Error = [b \in Blocks |-> 0]
  /\ xold = [b \in Blocks |-> <<>>]
  /\ matrixError = 0
  /\ ret = -1
  /\ mainDiagonal \in [Interior(0) -> {Frac(1, 1), Frac(2, 1), Frac(1, 2)}]
  /\ diagIn = mainDiagonal
  /\ trace = <<>>
  /\ finished = {}
  /\ visits = [b \in Blocks |-> <<>>]
  /\ duSwap = du
  /\ errSwap = 0
  /\ obsErr = 0

\* ------------------------------------------------------------------ Relax

constVars == <<level, blk, aInv, inp, solver, sweeps, reorder_, mainDiagonal, diagIn>>
relaxVars == <<du, ii, l2Error, xold, matrixError, ret, trace, finished, duSwap,
               errSwap, obsErr>>

\* for (bb = 0; bb < NumBlocks; ++bb): block b's turn comes when every block
\* before it has returned.
InTurn(b) == \A q \in Blocks : q < b => st[q] = "fin"

\* The sweep loop's test, ii < sweeps, with one sweep too many.
OneMoreSweep == ii <= sweeps

\* for (auto ii = 0; ii < sweeps; ++ii)
SweepLoopTest == ii < sweeps

Exchange(next) ==
  /\ du' = SwapImplicitUpdate(du)
  /\ pc' = next
  /\ st' = [b \in Blocks |-> "idle"]
  /\ trace' = Append(trace, <<"swap", -1>>)
  /\ duSwap' = du'
  /\ errSwap' = matrixError
  /\ UNCHANGED <<constVars, ii, nn, l2Error, xold, matrixError, ret, finished,
                 visits, obsErr>>

\* lusgs::Relax, line 312: the exchange that opens a sweep.
LusgsSwapFirst ==
  /\ solver = "lusgs" /\ pc = "loop" /\ SweepLoopTest
  /\ Exchange("fwd")

\* LusgsSwapSecond without its exchange: the backward half follows the
\* forward half directly.
LusgsNoSecondSwap ==
  /\ solver = "lusgs" /\ pc = "fwd" /\ \A b \in Blocks : st[b] = "fin"
  /\ pc' = "bwd"
  /\ st' = [b \in Blocks |-> "idle"]
  /\ UNCHANGED <<constVars, du, ii, nn, l2Error, xold, matrixError, ret, trace,
                 finished, visits, duSwap, errSwap, obsErr>>

\* lusgs::Relax, line 321: the exchange between the forward and backward halves.
LusgsSwapSecond ==
  /\ solver = "lusgs" /\ pc = "fwd" /\ \A b \in Blocks : st[b] = "fin"
  /\ Exchange("bwd")

\* dplur::Relax, line 387.
DplurSwap ==
  /\ solver = "dplur" /\ pc = "loop" /\ SweepLoopTest
  /\ Exchange("dplur")

\* Call with l2Error shared by the blocks instead of local to the call.
CallSharedError(b, phase, first) ==
  /\ pc = phase /\ st[b] = "idle"
  /\ st' = [st EXCEPT ![b] = "run"]
  /\ nn' = [nn EXCEPT ![b] = first]
  /\ l2Error' = [q \in Blocks |-> 0]
  /\ visits' = [visits EXCEPT ![b] = <<>>]
  /\ trace' = Append(trace, <<phase, b>>)

\* The call of a block's sweep: its locals are set up.
Call(b, phase, first) ==
  /\ pc = phase /\ st[b] = "idle"
  /\ st' = [st EXCEPT ![b] = "run"]
  /\ nn' = [nn EXCEPT ![b] = first]
  /\ l2Error' = [l2Error EXCEPT ![b] = 0]
  /\ visits' = [visits EXCEPT ![b] = <<>>]
  /\ trace' = Append(trace, <<phase, b>>)

ForwardCall(b) ==
  /\ Call(b, "fwd", 0)
  /\ UNCHANGED <<constVars, du, pc, ii, xold, matrixError, ret, finished,
                 duSwap, errSwap, obsErr>>

ForwardCell(b) ==
  /\ pc = "fwd" /\ st[b] = "run" /\ nn[b] < NumCells(b)
  /\ LET c == reorder_[b][nn[b] + 1] IN
       /\ du' = [du EXCEPT ![b] = LUSGS_ForwardCell(b, ii, c, du[b])]
       /\ visits' = [visits EXCEPT ![b] = Append(@, c)]
  /\ nn' = [nn EXCEPT ![b] = @ + 1]
  /\ UNCHANGED <<constVars, pc, ii, st, l2Error, xold, matrixError, ret, trace,
                 finished, duSwap, errSwap, obsErr>>

ForwardReturn(b) ==
  /\ pc = "fwd" /\ st[b] = "run" /\ ~(nn[b] < NumCells(b))
  /\ st' = [st EXCEPT ![b] = "fin"]
  /\ finished' = finished \cup {<<"fwd", ii, b>>}
  /\ UNCHANGED <<constVars, du, pc, ii, nn, l2Error, xold, matrixError, ret,
                 trace, visits, duSwap, errSwap, obsErr>>

BackwardCall(b) ==
  /\ Call(b, "bwd", NumCells(b) - 1)
  /\ UNCHANGED <<constVars, du, pc, ii, xold, matrixError, ret, finished,
                 duSwap, errSwap, obsErr>>

BackwardCell(b) ==
  /\ pc = "bwd" /\ st[b] = "run" /\ nn[b] >= 0
  /\ LET c == reorder_[b][nn[b] + 1]
         r == LUSGS_BackwardCell(b, ii, c, du[b])
     IN /\ du' = [du EXCEPT ![b] = r.x]
        /\ l2Error' = [l2Error EXCEPT ![b] = @ + r.err]
        /\ visits' = [visits EXCEPT ![b] = Append(@, c)]
        /\ obsErr' = obsErr + (du'[b][c] - du[b][c]) * (du'[b][c] - du[b][c])
  /\ nn' = [nn EXCEPT ![b] = @ - 1]
  /\ UNCHANGED <<constVars, pc, ii, st, xold, matrixError, ret, trace, finished,
                 duSwap, errSwap>>

\* BackwardReturn with = in place of +=.
BackwardReturnAssign(b) ==
  /\ pc = "bwd" /\ st[b] = "run" /\ ~(nn[b] >= 0)
  /\ st' = [st EXCEPT ![b] = "fin"]
  /\ matrixError' = l2Error[b]
  /\ finished' = finished \cup {<<"bwd", ii, b>>}
  /\ UNCHANGED <<constVars, du, pc, ii, nn, l2Error, xold, ret, trace, visits,
                 duSwap, errSwap, obsErr>>

\* matrixError += LUSGS_Backward(...)
BackwardReturn(b) ==
  /\ pc = "bwd" /\ st[b] = "run" /\ ~(nn[b] >= 0)
  /\ st' = [st EXCEPT ![b] = "fin"]
  /\ matrixError' = matrixError + l2Error[b]
  /\ finished' = finished \cup {<<"bwd", ii, b>>}
  /\ UNCHANGED <<constVars, du, pc, ii, nn, l2Error, xold, ret, trace, visits,
                 duSwap, errSwap, obsErr>>

DPLURCall(b) ==
  /\ Call(b, "dplur", 0)
  /\ xold' = [xold EXCEPT ![b] = du[b]]
  /\ UNCHANGED <<constVars, du, pc, ii, matrixError, ret, finished, duSwap,
                 errSwap, obsErr>>

DPLURStep(b) ==
  /\ pc = "dplur" /\ st[b] = "run" /\ nn[b] < NumCells(b)
  /\ LET c == NaturalOrder(b)[nn[b] + 1]
         r == DPLURCell(b, c, du[b], xold[b])
     IN /\ du' = [du EXCEPT ![b] = r.x]
        /\ l2Error' = [l2Error EXCEPT ![b] = @ + r.err]
        /\ visits' = [visits EXCEPT ![b] = Append(@, c)]
        /\ obsErr' = obsErr + (du'[b][c] - du[b][c]) * (du'[b][c] - du[b][c])
  /\ nn' = [nn EXCEPT ![b] = @ + 1]
  /\ UNCHANGED <<constVars, pc, ii, st, xold, matrixError, ret, trace, finished,
                 duSwap, errSwap>>

\* DPLURReturn with the returned error added to matrixError.
DPLURReturnAdded(b) ==
  /\ pc = "dplur" /\ st[b] = "run" /\ ~(nn[b] < NumCells(b))
  /\ st' = [st EXCEPT ![b] = "fin"]
  /\ matrixError' = matrixError + l2Error[b]
  /\ finished' = finished \cup {<<"dplur", ii, b>>}
  /\ UNCHANGED <<constVars, du, pc, ii, nn, l2Error, xold, ret, trace, visits,
                 duSwap, errSwap, obsErr>>

\* this->DPLUR(...): the value returned is dropped.
DPLURReturn(b) ==
  /\ pc = "dplur" /\ st[b] = "run" /\ ~(nn[b] < NumCells(b))
  /\ st' = [st EXCEPT ![b] = "fin"]
  /\ matrixError' = matrixError
  /\ finished' = finished \cup {<<"dplur", ii, b>>}
  /\ UNCHANGED <<constVars, du, pc, ii, nn, l2Error, xold, ret, trace, visits,
                 duSwap, errSwap, obsErr>>

\* The end of the sweep loop's body: ++ii.
NextSweep(phase) ==
  /\ pc = phase /\ \A b \in Blocks : st[b] = "fin"
  /\ ii' = ii + 1
  /\ pc' = "loop"
  /\ UNCHANGED <<constVars, du, st, nn, l2Error, xold, matrixError, ret, trace,
                 finished, visits, duSwap, errSwap, obsErr>>

LusgsNextSweep == solver = "lusgs" /\ NextSweep("bwd")
DplurNextSweep == solver = "dplur" /\ NextSweep("dplur")

\* The sweep loop's exit and return matrixError.
Return ==
  /\ pc = "loop" /\ ~SweepLoopTest
  /\ ret' = matrixError
  /\ pc' = "done"
  /\ UNCHANGED <<constVars, du, ii, st, nn, l2Error, xold, matrixError, trace,
                 finished, visits, duSwap, errSwap, obsErr>>

LusgsReturn == solver = "lusgs" /\ Return
DplurReturn == solver = "dplur" /\ Return

Driver ==
  \/ LusgsSwapFirst \/ LusgsSwapSecond \/ LusgsNextSweep \/ LusgsReturn
  \/ DplurSwap \/ DplurNextSweep \/ DplurReturn

Cells ==
  \E b \in Blocks :
    \/ ForwardCell(b) \/ ForwardReturn(b)
    \/ BackwardCell(b) \/ BackwardReturn(b)
    \/ DPLURStep(b) \/ DPLURReturn(b)

\* Relax as written: the blocks of a phase one after the other.
Next ==
  \/ Driver
  \/ Cells
  \/ \E b \in Blocks : InTurn(b) /\ (ForwardCall(b) \/ BackwardCall(b) \/ DPLURCall(b))

Spec == Init /\ [][Next]_vars

\* Block sweeps of one phase running side by side: any block of the phase may
\* be called, and may take its next step, at any time between two exchanges.
NextPar ==
  \/ Driver
  \/ Cells
  \/ \E b \in Blocks : ForwardCall(b) \/ BackwardCall(b) \/ DPLURCall(b)

SpecPar == InitPar /\ [][NextPar]_vars

SpecOrder == InitOrder /\ [][Next]_vars

\* --------------------------------------------------------- InvertDiagonal

\* One pass of the loops kk { jj { ii } } of InvertDiagonal on block 0.
InvertCell ==
  /\ pc = "invert" /\ nn[0] < NumCells(0)
  /\ LET c == NaturalOrder(0)[nn[0] + 1] IN
       /\ mainDiagonal' = [mainDiagonal EXCEPT ![c] = InvertDiagonalCell(0, c, @)]
       /\ visits' = [visits EXCEPT ![0] = Append(@, c)]
  /\ nn' = [nn EXCEPT ![0] = @ + 1]
  /\ UNCHANGED <<level, blk, aInv, inp, solver, sweeps, reorder_, diagIn, pc, st,
                 relaxVars>>

InvertReturn ==
  /\ pc = "invert" /\ ~(nn[0] < NumCells(0))
  /\ pc' = "inverted"
  /\ st' = [st EXCEPT ![0] = "fin"]
  /\ UNCHANGED <<constVars, nn, visits, relaxVars>>

NextInvert == InvertCell \/ InvertReturn

SpecInvert == InitInvert /\ [][NextInvert]_vars

\* ------------------------------------------------------------------ claims

Range(f) == {f[x] : x \in DOMAIN f}
IsPrefix(p, q) == Len(p) <= Len(q) /\ SubSeq(q, 1, Len(p)) = p
Swaps(t) == Cardinality({k \in 1 .. Len(t) : t[k][1] = "swap"})

PhaseCalls(phase) == [k \in 1 .. NumBlocks |-> <<phase, k - 1>>]

SweepEvents ==
  IF solver = "lusgs"
    THEN <<(<<"swap", -1>>)>> \o PhaseCalls("fwd") \o <<(<<"swap", -1>>)>> \o PhaseCalls("bwd")
    ELSE <<(<<"swap", -1>>)>> \o PhaseCalls("dplur")

RECURSIVE Repeat(_, _)
Repeat(t, n) == IF n <= 0 THEN <<>> ELSE t \o Repeat(t, n - 1)

\* The update handed to Relax.
Entry == [b \in Blocks |-> InitializeMatrixUpdate(b)]

\* C1: for sweeps >= 1 the calls Relax issues are, in order, sweeps
\* repetitions of (exchange, forward on blocks 0..B-1, exchange, backward on
\* blocks 0..B-1) for LU-SGS and of (exchange, DPLUR on blocks 0..B-1) for
\* DP-LUR; a block's sweep runs only after the exchange that opens its phase,
\* and a backward sweep of sweep ii only after every forward sweep of ii
\* has returned.
C1_EventOrder ==
  sweeps >= 1 =>
    /\ IsPrefix(trace, Repeat(SweepEvents, sweeps))
    /\ pc = "done" => trace = Repeat(SweepEvents, sweeps)
    /\ \A b \in Blocks :
         st[b] = "run" =>
           /\ pc = "fwd" => Swaps(trace) = 2 * ii + 1
           /\ pc = "bwd" => Swaps(trace) = 2 * ii + 2
           /\ pc = "dplur" => Swaps(trace) = ii + 1
           /\ pc = "bwd" => \A q \in Blocks : <<"fwd", ii, q>> \in finished

C1_Witness ==
  /\ pc = "done" /\ solver = "lusgs" /\ sweeps = 2 /\ NumBlocks = 2
  /\ Len(trace) = 12
  /\ <<"bwd", 1, 1>> \in finished

\* C2: Relax called with sweeps <= 0 performs no exchange and no sweep,
\* leaves every entry of du (interior and ghost, every block) as it was
\* handed over, and returns 0.
C2_NoSweeps ==
  sweeps <= 0 =>
    /\ pc \in {"loop", "done"}
    /\ trace = <<>>
    /\ finished = {}
    /\ du = Entry
    /\ pc = "done" => ret = 0

C2_Witness ==
  /\ sweeps <= 0 /\ pc = "done" /\ ret = 0
  /\ \E b \in Blocks : \E c \in Interior(b) : du[b][c] # 0

\* C3: the value lusgs::Relax returns is the sum, over all sweeps and all
\* blocks, of the squared changes (du after - du before) that the backward
\* sweeps made at interior cells; the forward sweeps add nothing to it.
C3_LusgsError ==
  (solver = "lusgs" /\ pc = "done") => ret = obsErr

C3_Witness ==
  /\ solver = "lusgs" /\ pc = "done" /\ sweeps = 2 /\ NumBlocks = 2
  /\ ret > 0
  /\ Cardinality({f \in finished : f[1] = "bwd"}) = 4

\* C4: dplur::Relax returns 0 whatever its sweeps did, also when they
\* changed du and computed a non-zero l2Error.
C4_DplurReturnsZero ==
  (solver = "dplur" /\ pc = "done") => ret = 0

C4_Witness ==
  /\ solver = "dplur" /\ pc = "done" /\ sweeps >= 1
  /\ obsErr > 0
  /\ \E b \in Blocks : l2Error[b] > 0 /\ du[b] # Entry[b]

PlaneOf(c) == c[1] + c[2] + c[3]
Reverse(t) == [k \in 1 .. Len(t) |-> t[Len(t) + 1 - k]]
Written(b) == Range(visits[b])

\* C5: each reorder table is a permutation of its block's interior cells with
\* i+j+k non-decreasing; a forward sweep writes the cells in table order and a
\* backward sweep in the reverse order, each cell exactly once; when the
\* forward sweep is about to write cell c every physical lower neighbour of c
\* has been written in this sweep and no physical upper neighbour has, and
\* the other way round for the backward sweep.
C5_Hyperplane ==
  solver = "lusgs" =>
    \A b \in Blocks :
      LET t == reorder_[b] IN
      /\ Len(t) = NumCells(b)
      /\ Range(t) = Interior(b)
      /\ \A n \in 1 .. Len(t) - 1 : PlaneOf(t[n]) <= PlaneOf(t[n + 1])
      /\ (pc = "fwd" /\ st[b] # "idle") => IsPrefix(visits[b], t)
      /\ (pc = "bwd" /\ st[b] # "idle") => IsPrefix(visits[b], Reverse(t))
      /\ (pc = "fwd" /\ st[b] = "fin") => visits[b] = t
      /\ (pc = "bwd" /\ st[b] = "fin") => visits[b] = Reverse(t)
      /\ (pc = "fwd" /\ st[b] = "run" /\ nn[b] < NumCells(b)) =>
           LET c == t[nn[b] + 1] IN
           /\ c \notin Written(b)
           /\ \A d \in Dirs :
                /\ IsPhysical(b, Lower(c, d)) => Lower(c, d) \in Written(b)
                /\ IsPhysical(b, Upper(c, d)) => Upper(c, d) \notin Written(b)
      /\ (pc = "bwd" /\ st[b] = "run" /\ nn[b] >= 0) =>
           LET c == t[nn[b] + 1] IN
           /\ c \notin Written(b)
           /\ \A d \in Dirs :
                /\ IsPhysical(b, Upper(c, d)) => Upper(c, d) \in Written(b)
                /\ IsPhysical(b, Lower(c, d)) => Lower(c, d) \notin Written(b)

C5_Witness ==
  /\ solver = "lusgs" /\ pc = "bwd" /\ st[0] = "run"
  /\ Block(0) = Ext(2, 3, 2)
  /\ Len(visits[0]) = 5
  /\ reorder_[0][nn[0] + 1] = <<1, 0, 1>>

Perms(S) ==
  {f \in [1 .. Cardinality(S) -> S] : \A i, j \in DOMAIN f : f[i] = f[j] => i = j}

\* C6: when a DPLUR sweep on a block has visited its last cell, du at every
\* interior cell is aInv * (b + L - U) with L and U evaluated on the copy
\* taken at entry, and visiting the interior cells in any other order gives
\* the same du and the same l2Error.
C6_DplurOrderFree ==
  \A b \in Blocks :
    (pc = "dplur" /\ st[b] = "run" /\ ~(nn[b] < NumCells(b))) =>
      /\ \A c \in Interior(b) :
           du[b][c] = aInv[<<b, c>>] * (BTerm(b, c) + ImplicitLower(b, c, xold[b])
                                        - ImplicitUpper(b, c, xold[b]))
      /\ \A c \in Ghosts(b) : du[b][c] = xold[b][c]
      /\ \A order \in Perms(Interior(b)) :
           DPLURInOrder(b, order, xold[b]) = [x |-> du[b], err |-> l2Error[b]]

C6_Witness ==
  \E b \in Blocks :
    /\ pc = "dplur" /\ st[b] = "run" /\ ~(nn[b] < NumCells(b))
    /\ NumCells(b) = 4 /\ ii = 1
    /\ l2Error[b] > 0
    /\ \A c \in Interior(b) : xold[b][c] # 0 /\ du[b][c] # xold[b][c]

\* The value w * D + c0 of a cell as a fraction <<numerator, denominator>>,
\* D being the cell's block as handed over and c0 = coeff + radius / cfl.
Augmented(c, cfl, radius) ==
  LET D == diagIn[c]
      w == inp.matrixRelaxation
      coeff == SolDeltaNCoeff(0, c)
  IN IF cfl > 0
       THEN <<w * D.num * cfl + (coeff * cfl + radius) * D.den, D.den * cfl>>
       ELSE <<w * D.num + coeff * D.den, D.den>>

IsInverseOf(m, v) == m.den # 0 /\ m.num * v[1] = m.den * v[2]

\* C7: InvertDiagonal replaces each interior cell's block D, exactly once, by
\* the inverse of w * D + c0, with c0 = SolDeltaNCoeff + max spectral radius /
\* dualTimeCFL when dualTimeCFL > 0 and c0 = SolDeltaNCoeff otherwise (c0 is
\* not scaled by w); with a zero spectral radius the result is the inverse
\* of w * D + SolDeltaNCoeff whatever dualTimeCFL is.
C7_InvertDiagonal ==
  pc \in {"invert", "inverted"} =>
    /\ IsPrefix(visits[0], NaturalOrder(0))
    /\ pc = "inverted" => visits[0] = NaturalOrder(0)
    /\ \A c \in Interior(0) :
         LET radius == MaxComponent(SpectralRadius(0, c)) IN
         /\ c \notin Written(0) => mainDiagonal[c] = diagIn[c]
         /\ c \in Written(0) =>
              /\ IsInverseOf(mainDiagonal[c], Augmented(c, inp.dualTimeCFL, radius))
              /\ radius = 0 => IsInverseOf(mainDiagonal[c], Augmented(c, 0, 0))

C7_Witness ==
  /\ pc = "inverted" /\ inp.dualTimeCFL = 2 /\ inp.matrixRelaxation = 2
  /\ \E c \in Interior(0) :
       /\ SpectralRadius(0, c) = <<1, 2>> /\ SolDeltaNCoeff(0, c) = 1
       /\ diagIn[c] = Frac(1, 2)
       /\ mainDiagonal[c] = Frac(1, 3)
  /\ \E c \in Interior(0) :
       SpectralRadius(0, c) = <<0, 0>> /\ mainDiagonal[c] # diagIn[c]

\* A step of block b's running sweep that handles one cell.
FwdStep(b) == pc = "fwd" /\ st[b] = "run" /\ nn'[b] = nn[b] + 1
BwdStep(b) == pc = "bwd" /\ st[b] = "run" /\ nn'[b] = nn[b] - 1
DplurStep(b) == pc = "dplur" /\ st[b] = "run" /\ nn'[b] = nn[b] + 1
ExchangeStep == trace' = Append(trace, <<"swap", -1>>)

\* aInv * (b + L - U) at cell c, L evaluated on xl and U on xu.
FullUpdate(b, c, xl, xu) ==
  aInv[<<b, c>>] * (BTerm(b, c) + ImplicitLower(b, c, xl) - ImplicitUpper(b, c, xu))

ZeroGhosts(b, x) == [c \in Padded(b) |-> IF c \in Interior(b) THEN x[c] ELSE 0]

FirstSweepUninitialized ==
  solver = "lusgs" /\ ii = 0 /\ ~inp.matrixRequiresInitialization

\* C8 as stated: on sweep 0 of an uninitialized update, every forward and
\* every backward cell update leaves du(c) = aInv * (b + L - U) with L and U
\* evaluated on du, interior and ghost values, as it is when the cell is
\* updated.
C8_AsStated ==
  [][FirstSweepUninitialized =>
       \A b \in Blocks :
         (FwdStep(b) \/ BwdStep(b)) =>
           LET c == reorder_[b][nn[b] + 1]
           IN du'[b][c] = FullUpdate(b, c, du[b], du[b])]_vars

\* C8 amended: on sweep 0 of an uninitialized update the forward update
\* equals aInv * (b + L - U) on the du present, all ghost values being zero
\* during that forward sweep; the backward update equals aInv * (b + L - U)
\* with U evaluated on the du present and L on the interior values present
\* and the lower ghost values of the forward sweep (zero), not on the ghost
\* values brought in by the exchange between the two halves.
C8_FirstSweep ==
  [][FirstSweepUninitialized =>
       \A b \in Blocks :
         LET c == reorder_[b][nn[b] + 1] IN
         /\ FwdStep(b) =>
              /\ \A g \in Ghosts(b) : du[b][g] = 0
              /\ du'[b][c] = FullUpdate(b, c, du[b], du[b])
         /\ BwdStep(b) =>
              du'[b][c] = FullUpdate(b, c, ZeroGhosts(b, du[b]), du[b])]_vars

C8_Witness ==
  /\ FirstSweepUninitialized /\ pc = "bwd"
  /\ \E b \in Blocks :
       /\ st[b] = "fin" /\ InterblockLower(b, 1) /\ NumCells(b) = 2
       /\ du[b][<<-1, 0, 0>>] # 0
       /\ du[b][<<0, 0, 0>>] # FullUpdate(b, <<0, 0, 0>>, du[b], du[b])
       /\ du[b][<<0, 0, 0>>] = FullUpdate(b, <<0, 0, 0>>, ZeroGhosts(b, du[b]), du[b])

\* C9: a cell step of a sweep on block b changes du only at interior cells
\* of block b, and leaves the block data and the inverted diagonal as they
\* are; ghost entries change only in a ghost exchange, so every ghost value
\* equals the one left by the last exchange.
C9_Frame ==
  /\ [](\A b \in Blocks : \A c \in Ghosts(b) : du[b][c] = duSwap[b][c])
  /\ [][/\ \A b \in Blocks :
             (FwdStep(b) \/ BwdStep(b) \/ DplurStep(b)) =>
               /\ \A q \in Blocks \ {b} : du'[q] = du[q]
               /\ \A c \in Padded(b) : du'[b][c] # du[b][c] => c \in Interior(b)
               /\ blk' = blk /\ aInv' = aInv /\ level' = level
        /\ (\E b \in Blocks : \E c \in Ghosts(b) : du'[b][c] # du[b][c])
             => ExchangeStep]_vars

C9_Witness ==
  /\ pc = "bwd" /\ ii = 1
  /\ \E b \in Blocks :
       /\ st[b] = "run" /\ Len(visits[b]) = 1
       /\ \E c \in Ghosts(b) : du[b][c] # 0
       /\ du[b] # duSwap[b]

\* C10: with the block sweeps of a phase run in any order and interleaved
\* cell by cell, every block ends the phase with the du its sweep computes
\* alone from the du left by the exchange, matrixError grows by the sum of
\* the blocks' backward errors, and Relax ends with the du and the return
\* value of the sequential block order.
C10_Independent ==
  /\ \A b \in Blocks :
       st[b] = "fin" =>
         /\ pc = "fwd" => du[b] = LUSGS_Forward(b, ii, duSwap[b])
         /\ pc = "bwd" => du[b] = LUSGS_Backward(b, ii, duSwap[b]).x
         /\ pc = "dplur" => du[b] = DPLUR(b, duSwap[b]).x
  /\ (\A b \in Blocks : st[b] = "fin") =>
       /\ pc = "fwd" => matrixError = errSwap
       /\ pc = "bwd" =>
            matrixError = errSwap
              + SumErr([b \in Blocks |-> LUSGS_Backward(b, ii, duSwap[b])], NumBlocks)
       /\ pc = "dplur" => matrixError = errSwap
  /\ pc = "done" => [x |-> du, err |-> ret] = Relax(Entry)

C10_Witness ==
  /\ pc = "bwd" /\ ii = 1 /\ NumBlocks = 2
  /\ SubSeq(trace, Len(trace) - 1, Len(trace)) = <<(<<"bwd", 1>>), (<<"bwd", 0>>)>>
  /\ \A b \in Blocks : st[b] = "run" /\ NumCells(b) = 2 /\ Len(visits[b]) = 1
  /\ l2Error[0] > 0

====
